---- MODULE Spec2Model ----
(***************************************************************************)
(* A model of BasicCaller's realtime service (src/API.py with its helpers  *)
(* in src/aux.py): the admission gate of /voice, the per-caller rate-limit *)
(* windows, the media-stream sessions kept in active_calls, the two pumps   *)
(* that relay audio between the carrier and the backend, the transcript    *)
(* hand-over through conversation_state, the /end_call summariser step and *)
(* the issue queue served by /poll; and of the stepwise webhook service of *)
(* src/main.py, with its own sessions and issue store.                     *)
(*                                                                         *)
(* The service runs on one asyncio event loop: the code between two awaits *)
(* that can suspend is one atomic step, and so one action here.            *)
(***************************************************************************)
EXTENDS Integers, Sequences, FiniteSets, TLC

\* ------------------------------------------------------------ bounds
\* How often the clock advances in a run.
MaxTicks == 2
\* How many transcript-bearing backend events arrive in a run.
MaxEvents == 4
\* How many records /end_call enqueues in a run, and the stepwise flow appends.
MaxIssues == 2
\* How many admitted /voice requests can wait for store_lock at once.
MaxWaiting == 1
\* How many audio frames arrive in a run, from the carrier and from the backend.
MaxFrames == 3

\* ------------------------------------------------------------ program constants
MAX_REQUESTS_PER_HOUR == 5
\* is_rate_limited: window_start = now - 3600
HOUR == 3600
\* clear_old_issues: cutoff = now - 7 days
RETENTION == 7 * 24 * 60 * 60

\* ------------------------------------------------------------ inputs
\* Caller numbers are sequences of characters, so that is_e164 is decided by
\* the characters as the regular expression decides it.
NumGood == <<"+", "1", "5">>
NumOther == <<"+", "4", "4", "7">>
NumNoPlus == <<"1", "5">>
NumMissing == <<>>
Froms == {NumGood, NumOther, NumNoPlus, NumMissing}

\* Call ids; "" is a request without a CallSid.
CallSids == {"CA1", "CA2"}
NoCallSid == ""

\* The steps by which the clock advances: a second, an hour, the retention.
Steps == {1, HOUR, RETENTION}

\* The media-stream connections of a run, in the order they are opened.
Conns == {1, 2}
StreamSids == {"MZ1"}
\* The stream_sid of a session before the carrier's start message: Python's
\* None, written as a string so that it compares with the stream ids.
NoStreamSid == "None"
CallerTexts == {"", "hi"}
DeltaTexts == {"a", "b"}

\* Audio payloads as they arrive in a message: whether the base64 text decodes,
\* and the number of bytes it decodes to. Carrier frames are mu-law, a byte a
\* sample: the carrier's frames of 240 and of 160 samples, two short ones, an
\* empty one and one that is not base64.
CarrierFrames == {[b64 |-> TRUE, bytes |-> 240], [b64 |-> TRUE, bytes |-> 160]}
CarrierPayloads == {[b64 |-> TRUE, bytes |-> 3], [b64 |-> TRUE, bytes |-> 2],
                    [b64 |-> TRUE, bytes |-> 0], [b64 |-> FALSE, bytes |-> 0]}
\* Backend deltas are 16-bit samples: what the carrier's frames become, short
\* ones of 7 and of 3 samples, one of 7 bytes that is not a whole number of
\* samples, the empty string, and one that is not base64.
BackendFrames == {[b64 |-> TRUE, bytes |-> 1436], [b64 |-> TRUE, bytes |-> 956]}
BackendDeltas == {[b64 |-> TRUE, bytes |-> 14], [b64 |-> TRUE, bytes |-> 6],
                  [b64 |-> TRUE, bytes |-> 7], [b64 |-> TRUE, bytes |-> 0],
                  [b64 |-> FALSE, bytes |-> 4]}
\* Carrier messages the relay has no branch for, or cannot read.
TwilioFaults == {"invalid_json", "no_event", "unknown_event", "no_payload"}
\* Backend events without effect on the session, and unreadable messages.
OpenAIOthers == {"invalid_json", "no_type", "unknown_type", "error", "audio_done"}
FunctionNames == {"transfer_to_human", "other"}

VARIABLES
    now,                \* the wall clock (time.time(), datetime.utcnow()), in seconds
    ticks,              \* how often the clock advanced
    BLOCKED_NUMBERS,    \* aux.BLOCKED_NUMBERS
    rate_limit_log,     \* aux.rate_limit_log: number -> deque of timestamps
    issues_store,       \* API.issues_store
    conversation_state, \* API.conversation_state: call id -> {raw_transcript}
    active_calls,       \* API.active_calls: call id -> the session object registered
    sessions,           \* the session dicts: object id -> transcript, stream_sid, connected
    store_lock,         \* API.store_lock: "free" or held by the suspended /end_call
    pending,            \* the locals of the /end_call suspended in generate_summary
    voice_waiting,      \* admitted /voice requests suspended at `async with store_lock`
    pc,                 \* media_stream_handler of each connection: where it is
    call_of,            \* its call_sid path parameter
    twilio_pump,        \* handle_twilio_to_openai of the connection
    openai_pump,        \* handle_openai_to_twilio_and_events of the connection
    current_response_text, \* the model pump's partial bot utterance
    first_delta_at,     \* history: arrival number of the first delta in that buffer
    fin_ref,            \* finalize_call's local `transcript`: the session object it reads
    nevents,            \* history: backend events arrived so far
    enqueued,           \* history: records appended to issues_store per call id
    end_called,         \* history: call ids for which an /end_call has returned
    to_openai,          \* history: the audio messages each connection sent to the backend
    to_twilio,          \* history: the media messages each connection sent to the carrier
    nframes,            \* history: audio frames arrived so far
    transferred,        \* the call ids handle_transfer has redirected at the carrier
    admitted,           \* history: the call ids whose /voice request was admitted
    admit_times,        \* history: when each caller was admitted, the last hour of it
    main_conversation_state, \* main.conversation_state: call id -> the step answers
    main_issues_store,  \* main.issues_store
    main_enqueued,      \* history: records main.py appended per call id
    main_heard,         \* history: what /device_info and /explain_issue stored, per call id
    last                \* history: the request or event handled by the last step

vars == <<now, ticks, BLOCKED_NUMBERS, rate_limit_log, issues_store,
          conversation_state, active_calls, sessions, store_lock, pending,
          voice_waiting, pc, call_of, twilio_pump, openai_pump,
          current_response_text, first_delta_at, fin_ref, nevents, enqueued,
          end_called, to_openai, to_twilio, nframes, transferred, admitted,
          admit_times, main_conversation_state, main_issues_store,
          main_enqueued, main_heard, last>>

gateVars == <<BLOCKED_NUMBERS, rate_limit_log, voice_waiting>>
queueVars == <<issues_store, store_lock, pending, enqueued, end_called>>
connVars == <<pc, call_of, twilio_pump, openai_pump, current_response_text,
              first_delta_at, fin_ref, nevents>>
registryVars == <<active_calls, sessions, conversation_state>>
clockVars == <<now, ticks>>
relayVars == <<to_openai, to_twilio, nframes, transferred>>
stepVars == <<main_conversation_state, main_issues_store, main_enqueued,
              main_heard>>

None == [none |-> TRUE]

\* ------------------------------------------------------------ aux.py: admission
DIGITS == {"0", "1", "2", "3", "4", "5", "6", "7", "8", "9"}

\* E164_REGEX = ^\+[1-9]\d{1,14}$ ; `$` also matches before one trailing newline.
is_e164(number) ==
    LET n == IF Len(number) > 0 /\ number[Len(number)] = "\n"
             THEN SubSeq(number, 1, Len(number) - 1) ELSE number
    IN  /\ Len(n) >= 3
        /\ Len(n) <= 16
        /\ n[1] = "+"
        /\ n[2] \in DIGITS \ {"0"}
        /\ \A i \in 3..Len(n) : n[i] \in DIGITS

is_blocked(number) == number \in BLOCKED_NUMBERS

\* rate_limit_log[number] of the defaultdict: the deque, made empty when absent.
Window(log, number) == IF number \in DOMAIN log THEN log[number] ELSE <<>>

\* while timestamps and timestamps[0] < window_start: timestamps.popleft()
RECURSIVE Popleft(_, _)
Popleft(timestamps, window_start) ==
    IF timestamps # <<>> /\ timestamps[1] < window_start
    THEN Popleft(Tail(timestamps), window_start)
    ELSE timestamps

\* A variant that records the attempt while it checks the limit.
is_rate_limited_store_recording(log, number, t) ==
    [x \in DOMAIN log \cup {number} |->
        IF x = number
        THEN Append(Popleft(Window(log, number), t - HOUR), t)
        ELSE log[x]]

\* A variant that creates the window and leaves its old timestamps in it.
is_rate_limited_store_unpruned(log, number, t) ==
    [x \in DOMAIN log \cup {number} |-> IF x = number THEN Window(log, number) ELSE log[x]]

\* The store after is_rate_limited(number): the key exists and its deque is pruned.
is_rate_limited_store(log, number, t) ==
    [x \in DOMAIN log \cup {number} |->
        IF x = number THEN Popleft(Window(log, number), t - HOUR) ELSE log[x]]

\* A variant that lets the caller reach one request more than the limit.
is_rate_limited_off_by_one(log, number, t) ==
    Len(Popleft(Window(log, number), t - HOUR)) > MAX_REQUESTS_PER_HOUR

\* A variant that also lets go of a timestamp exactly one hour old.
is_rate_limited_inclusive(log, number, t) ==
    Len(Popleft(Window(log, number), t - HOUR + 1)) >= MAX_REQUESTS_PER_HOUR

\* The value is_rate_limited(number) returns.
is_rate_limited(log, number, t) ==
    Len(Popleft(Window(log, number), t - HOUR)) >= MAX_REQUESTS_PER_HOUR

\* deque(maxlen=MAX_REQUESTS_PER_HOUR).append: a full deque drops its head.
DequeAppend(timestamps, t) ==
    IF Len(timestamps) >= MAX_REQUESTS_PER_HOUR
    THEN Append(Tail(timestamps), t)
    ELSE Append(timestamps, t)

\* A variant that creates the window and forgets the timestamp.
log_request_forgotten(log, number, t) ==
    [x \in DOMAIN log \cup {number} |->
        IF x = number THEN Window(log, number) ELSE log[x]]

\* The store after log_request(number).
log_request(log, number, t) ==
    [x \in DOMAIN log \cup {number} |->
        IF x = number THEN DequeAppend(Window(log, number), t) ELSE log[x]]

\* ------------------------------------------------------------ aux.py: issue queue
\* issues_store[:] = [issue for issue in issues_store
\*                    if issue.timestamp > cutoff and issue.visited]
KeepIssue(issue, t) == issue.timestamp > t - RETENTION /\ issue.visited

\* A variant that hands the kept records back as not visited.
clear_old_issues_unmarking(store, t) ==
    LET kept == SelectSeq(store, LAMBDA issue : KeepIssue(issue, t))
    IN  [i \in 1..Len(kept) |-> [kept[i] EXCEPT !.visited = FALSE]]

clear_old_issues(store, t) == SelectSeq(store, LAMBDA issue : KeepIssue(issue, t))

\* ------------------------------------------------------------ aux.py: summariser
\* What summary_prompt returns, by the shape generate_summary tells apart:
\*   "fail"   the literal "fail" summary_prompt returns when the API call raises
\*   "text"   a reply with no {...} in it
\*   "braces" a reply whose {...} is not valid JSON
\*   "json"   a reply whose {...} is the JSON object obj
required_keys == {"name", "company", "system_info", "title", "description", "priority"}

default == [name |-> "Unnamed", company |-> "Unknown", system_info |-> "Unknown",
            title |-> "Uncategorised Call", description |-> "Failed AI Summarisation",
            priority |-> "Uncategorised"]

GoodObject == [name |-> "Ann", company |-> "Acme", system_info |-> "Laptop",
               title |-> "VPN down", description |-> "Cannot connect",
               priority |-> "High"]
MissingKeyObject == [title |-> "VPN down", description |-> "Cannot connect",
                     priority |-> "High"]
ExtraKeyObject == [name |-> "Ann", company |-> "Acme", system_info |-> "Laptop",
                   title |-> "VPN down", description |-> "Cannot connect",
                   priority |-> "High", notes |-> "x"]

ReplyFail == [kind |-> "fail"]
ReplyText == [kind |-> "text"]
ReplyBraces == [kind |-> "braces"]
ReplyGood == [kind |-> "json", obj |-> GoodObject]
ReplyMissing == [kind |-> "json", obj |-> MissingKeyObject]
ReplyExtra == [kind |-> "json", obj |-> ExtraKeyObject]
Replies == {ReplyFail, ReplyText, ReplyBraces, ReplyGood, ReplyMissing, ReplyExtra}
FailedReplies == Replies \ {ReplyGood}

\* match = re.search(r'\{.*\}', content, re.DOTALL)
HasBraces(content) == content.kind \in {"braces", "json"}

\* generate_summary: [raised |-> TRUE] when json.loads raises out of it, else the
\* dict it returns.
generate_summary(content) ==
    IF ~HasBraces(content)
    THEN [raised |-> FALSE, value |-> default]
    ELSE IF content.kind = "braces"
         THEN [raised |-> TRUE]
         ELSE IF DOMAIN content.obj # required_keys
              THEN [raised |-> FALSE, value |-> default]
              ELSE [raised |-> FALSE, value |-> content.obj]

\* dict.get(key, fallback)
DictGet(d, key, fallback) == IF key \in DOMAIN d THEN d[key] ELSE fallback

\* [message["message"] for message in raw_transcript]
RECURSIVE Messages(_)
Messages(raw_transcript) ==
    IF raw_transcript = <<>> THEN <<>>
    ELSE <<Head(raw_transcript).message>> \o Messages(Tail(raw_transcript))

\* CallData(...) of get_issue_type
CallData(summary, From, raw_transcript, t) ==
    [name |-> DictGet(summary, "name", From),
     company |-> DictGet(summary, "company", "no company information"),
     number |-> From,
     system_info |-> DictGet(summary, "system_info", "no device information"),
     title |-> summary.title,
     description |-> summary.description,
     priority |-> summary.priority,
     raw_transcription |-> Messages(raw_transcript),
     visited |-> FALSE,
     timestamp |-> t]

\* ------------------------------------------------------------ initial state
Init ==
    /\ now = 0
    /\ ticks = 0
    \* The blocklist is a module-level set the operator fills; the source ships
    \* it empty. It never changes while the service runs.
    /\ BLOCKED_NUMBERS \in {{}, {NumOther}}
    /\ rate_limit_log = <<>>
    /\ issues_store = <<>>
    /\ conversation_state = <<>>
    /\ active_calls = <<>>
    /\ sessions = <<>>
    /\ store_lock = "free"
    /\ pending = None
    /\ voice_waiting = 0
    /\ pc = [k \in Conns |-> "idle"]
    /\ call_of = [k \in Conns |-> NoCallSid]
    /\ twilio_pump = [k \in Conns |-> "-"]
    /\ openai_pump = [k \in Conns |-> "-"]
    /\ current_response_text = [k \in Conns |-> ""]
    /\ first_delta_at = [k \in Conns |-> 0]
    /\ fin_ref = [k \in Conns |-> 0]
    /\ nevents = 0
    /\ enqueued = [c \in CallSids |-> 0]
    /\ end_called = {}
    /\ to_openai = [k \in Conns |-> <<>>]
    /\ to_twilio = [k \in Conns |-> <<>>]
    /\ nframes = 0
    /\ transferred = {}
    /\ admitted = {}
    /\ admit_times = [number \in Froms |-> <<>>]
    /\ main_conversation_state = <<>>
    /\ main_issues_store = <<>>
    /\ main_enqueued = [c \in CallSids |-> 0]
    /\ main_heard = [c \in CallSids |-> <<>>]
    /\ last = [op |-> "init"]

\* ------------------------------------------------------------ the clock
Tick(d) ==
    /\ ticks < MaxTicks
    /\ now' = now + d
    /\ ticks' = ticks + 1
    /\ last' = [op |-> "tick"]
    /\ UNCHANGED <<stepVars, admit_times, relayVars, admitted, gateVars, queueVars, connVars,
                   registryVars>>

\* The history of admissions: a caller's admissions of the hour that ends at t.
\* An earlier one shares no one-hour window with this or any later admission.
AdmittedInHourTo(times, t) ==
    LET InHour(u) == t - u <= HOUR
    IN  SelectSeq(times, InHour)

\* ------------------------------------------------------------ POST /voice
\* start_call up to its first suspension. The rejection's log line evaluates
\* is_rate_limited(From) once more, whatever made the request fail.
start_call(CallSid, From) ==
    /\ IF CallSid = NoCallSid \/ From = NumMissing
       THEN /\ last' = [op |-> "voice", CallSid |-> CallSid, From |-> From,
                        status |-> "error"]
            /\ UNCHANGED <<rate_limit_log, voice_waiting, issues_store, admitted,
                           admit_times>>
       ELSE LET e164 == is_e164(From)
                log1 == IF e164 THEN is_rate_limited_store(rate_limit_log, From, now)
                        ELSE rate_limit_log
                limited == e164 /\ is_rate_limited(rate_limit_log, From, now)
                before == Len(Window(rate_limit_log, From))
            IN  IF ~e164 \/ limited \/ is_blocked(From)
                THEN /\ rate_limit_log' = is_rate_limited_store(log1, From, now)
                     /\ last' = [op |-> "voice", CallSid |-> CallSid, From |-> From,
                                 status |-> "rejected", E164 |-> e164,
                                 RateLimited |-> is_rate_limited(log1, From, now),
                                 Blocked |-> is_blocked(From), before |-> before]
                     /\ UNCHANGED <<voice_waiting, issues_store, admitted,
                           admit_times>>
                ELSE /\ rate_limit_log' = log_request(log1, From, now)
                     /\ admitted' = admitted \cup {CallSid}
                     /\ admit_times' = [admit_times EXCEPT ![From] = Append(AdmittedInHourTo(@, now), now)]
                     /\ last' = [op |-> "voice", CallSid |-> CallSid, From |-> From,
                                 status |-> "admitted", before |-> before]
                     /\ IF store_lock = "free"
                        THEN /\ issues_store' = clear_old_issues(issues_store, now)
                             /\ UNCHANGED voice_waiting
                        ELSE /\ voice_waiting < MaxWaiting
                             /\ voice_waiting' = voice_waiting + 1
                             /\ UNCHANGED issues_store
    /\ UNCHANGED <<stepVars, relayVars, BLOCKED_NUMBERS, store_lock, pending,
                   enqueued, end_called,
                   connVars, registryVars, clockVars>>

\* start_call resumed once store_lock is free: clear_old_issues and the reply.
start_call_sweep ==
    /\ voice_waiting > 0
    /\ store_lock = "free"
    /\ voice_waiting' = voice_waiting - 1
    /\ issues_store' = clear_old_issues(issues_store, now)
    /\ last' = [op |-> "voice_sweep"]
    /\ UNCHANGED <<stepVars, admit_times, relayVars, admitted, BLOCKED_NUMBERS, rate_limit_log,
                   store_lock, pending, enqueued,
                   end_called, connVars, registryVars, clockVars>>

\* ------------------------------------------------------------ GET /poll/
\* A variant that returns the records without marking them.
MarkVisited_skipped(store) == store

\* for issue in issues_store: issue.visited = True
MarkVisited(store) == [i \in 1..Len(store) |-> [store[i] EXCEPT !.visited = TRUE]]

\* verify_api_key raises 403 on a wrong key; otherwise the handler runs under
\* store_lock. issues_out holds the same objects, so it shows them visited.
poll(authorized) ==
    /\ IF ~authorized
       THEN /\ last' = [op |-> "poll", status |-> 403]
            /\ UNCHANGED issues_store
       ELSE /\ store_lock = "free"
            /\ issues_store' = clear_old_issues(MarkVisited(issues_store), now)
            /\ last' = [op |-> "poll", status |-> 200,
                        issues |-> MarkVisited(issues_store),
                        seen |-> Cardinality({i \in 1..Len(issues_store) :
                                                 issues_store[i].visited})]
    /\ UNCHANGED <<stepVars, admit_times, relayVars, admitted, gateVars, store_lock, pending, enqueued,
                   end_called, connVars,
                   registryVars, clockVars>>

\* ------------------------------------------------------------ POST /end_call
Total(f) == LET RECURSIVE Sum(_)
                Sum(S) == IF S = {} THEN 0
                          ELSE LET x == CHOOSE y \in S : TRUE
                               IN  f[x] + Sum(S \ {x})
            IN  Sum(DOMAIN f)

\* get_issue_type up to `await generate_summary(...)`, holding store_lock.
get_issue_type(CallSid, From) ==
    /\ store_lock = "free"
    /\ IF CallSid \notin DOMAIN conversation_state
       THEN /\ last' = [op |-> "end_call", CallSid |-> CallSid, status |-> "no_state"]
            /\ end_called' = end_called \cup ({CallSid} \cap CallSids)
            /\ UNCHANGED <<store_lock, pending>>
       ELSE IF conversation_state[CallSid].raw_transcript = <<>>
            THEN /\ last' = [op |-> "end_call", CallSid |-> CallSid,
                             status |-> "no_transcript"]
                 /\ end_called' = end_called \cup {CallSid}
                 /\ UNCHANGED <<store_lock, pending>>
            ELSE /\ Total(enqueued) < MaxIssues
                 /\ store_lock' = "end_call"
                 /\ pending' = [CallSid |-> CallSid, From |-> From,
                                raw_transcript |->
                                    conversation_state[CallSid].raw_transcript]
                 /\ last' = [op |-> "end_call", CallSid |-> CallSid,
                             status |-> "summarising"]
                 /\ UNCHANGED end_called
    /\ UNCHANGED <<stepVars, admit_times, relayVars, admitted, gateVars, issues_store, enqueued, connVars,
                   registryVars,
                   clockVars>>

\* get_issue_type resumed with the summariser's reply.
get_issue_type_resume(content) ==
    /\ pending # None
    /\ LET summary == generate_summary(content)
       IN  IF summary.raised
           THEN /\ last' = [op |-> "end_call", CallSid |-> pending.CallSid,
                            status |-> "raised", content |-> content]
                /\ UNCHANGED <<issues_store, enqueued>>
           ELSE /\ issues_store' =
                       Append(issues_store,
                              CallData(summary.value, pending.From,
                                       pending.raw_transcript, now))
                /\ enqueued' = [enqueued EXCEPT ![pending.CallSid] = @ + 1]
                /\ last' = [op |-> "end_call", CallSid |-> pending.CallSid,
                            status |-> "saved", content |-> content,
                            raw_transcript |-> pending.raw_transcript]
    /\ end_called' = end_called \cup {pending.CallSid}
    /\ store_lock' = "free"
    /\ pending' = None
    /\ UNCHANGED <<stepVars, admit_times, relayVars, admitted, gateVars, connVars, registryVars,
                   clockVars>>

\* ------------------------------------------------------------ dict helpers
\* d[key] = value
Put(d, key, value) ==
    [x \in DOMAIN d \cup {key} |-> IF x = key THEN value ELSE d[x]]

\* del d[key]
Del(d, key) == [x \in DOMAIN d \ {key} |-> d[x]]

\* The session objects still referenced: those registered in the registry ac and
\* those a suspended finalize_call holds (refs). The others are garbage.
Collect(ss, ac, refs) ==
    [o \in {x \in DOMAIN ss : x \in refs \/ \E c \in DOMAIN ac : ac[c] = x} |-> ss[o]]

HeldRefs(pcs, refs) == {refs[j] : j \in {i \in Conns : pcs[i] = "finalize_wait"}}

\* ------------------------------------------------------------ /media-stream/{call_sid}
\* The dict media_stream_handler registers; object ids are connection ids.
NewSession(k) == [ws |-> k, transcript |-> <<>>, stream_sid |-> NoStreamSid,
                  connected |-> TRUE]

\* active_calls[call_sid] = {...}: the registry after a connection's registration.
Register(ac, c, k) == Put(ac, c, k)

\* media_stream_handler up to `await connect_to_openai_realtime()`.
media_stream_handler(k, c) ==
    /\ pc[k] = "idle"
    /\ \A j \in Conns : j < k => pc[j] # "idle"
    /\ active_calls' = Register(active_calls, c, k)
    /\ sessions' = Collect(Put(sessions, k, NewSession(k)), active_calls',
                           HeldRefs(pc, fin_ref))
    /\ pc' = [pc EXCEPT ![k] = "connecting"]
    /\ call_of' = [call_of EXCEPT ![k] = c]
    /\ last' = [op |-> "connect", conn |-> k, CallSid |-> c]
    /\ UNCHANGED <<stepVars, admit_times, relayVars, admitted, gateVars, queueVars, clockVars,
                   conversation_state, twilio_pump,
                   openai_pump, current_response_text, first_delta_at, fin_ref,
                   nevents>>

\* finally: if call_sid in active_calls: active_calls[call_sid]['connected'] = False
MarkDisconnected(ss, ac, c) ==
    IF c \in DOMAIN ac THEN [ss EXCEPT ![ac[c]].connected = FALSE] ELSE ss

\* finalize_call's stored value: transcript if transcript else []
Stored(transcript) == [raw_transcript |-> transcript]

\* finalize_call(call_sid) and the cleanup after it, from a session table ss
\* (the finally block has marked it): it stores the transcript under store_lock
\* and the handler deletes the registry entry, or it suspends on the lock.
FinalizeAndCleanup(k, ss) ==
    LET c == call_of[k]
    IN  IF c \notin DOMAIN active_calls
        THEN /\ pc' = [pc EXCEPT ![k] = "done"]
             /\ sessions' = ss
             /\ UNCHANGED <<active_calls, conversation_state, fin_ref>>
        ELSE IF store_lock = "free"
             THEN /\ conversation_state' =
                         Put(conversation_state, c,
                             Stored(ss[active_calls[c]].transcript))
                  /\ active_calls' = Del(active_calls, c)
                  /\ pc' = [pc EXCEPT ![k] = "done"]
                  /\ sessions' = Collect(ss, active_calls', HeldRefs(pc', fin_ref))
                  /\ UNCHANGED fin_ref
             ELSE /\ pc' = [pc EXCEPT ![k] = "finalize_wait"]
                  /\ fin_ref' = [fin_ref EXCEPT ![k] = active_calls[c]]
                  /\ sessions' = ss
                  /\ UNCHANGED <<active_calls, conversation_state>>

\* connect_to_openai_realtime returns the socket, or raises: then openai_ws is
\* None and the finally block runs through to finalize_call without suspending.
connect_to_openai_realtime(k, ok) ==
    /\ pc[k] = "connecting"
    /\ IF ok
       THEN /\ pc' = [pc EXCEPT ![k] = "running"]
            /\ twilio_pump' = [twilio_pump EXCEPT ![k] = "running"]
            /\ openai_pump' = [openai_pump EXCEPT ![k] = "running"]
            /\ UNCHANGED <<registryVars, fin_ref>>
       ELSE /\ FinalizeAndCleanup(k, MarkDisconnected(sessions, active_calls,
                                                      call_of[k]))
            /\ UNCHANGED <<twilio_pump, openai_pump>>
    /\ last' = [op |-> "openai_connect", ok |-> ok]
    /\ UNCHANGED <<stepVars, admit_times, relayVars, admitted, gateVars, queueVars, clockVars, call_of,
                   current_response_text,
                   first_delta_at, nevents>>

\* ---- handle_twilio_to_openai
\* event 'start': active_calls[call_sid]['stream_sid'] = streamSid; the KeyError
\* of an unregistered call id is caught per message.
twilio_start(k, streamSid) ==
    /\ twilio_pump[k] = "running"
    /\ sessions' = IF call_of[k] \in DOMAIN active_calls
                   THEN [sessions EXCEPT ![active_calls[call_of[k]]].stream_sid =
                                             streamSid]
                   ELSE sessions
    /\ last' = [op |-> "twilio_start"]
    /\ UNCHANGED <<stepVars, admit_times, relayVars, admitted, gateVars, queueVars, clockVars, connVars,
                   active_calls,
                   conversation_state>>

\* event 'stop' breaks the loop; a closed carrier socket ends iter_text.
twilio_end(k) ==
    /\ twilio_pump[k] = "running"
    /\ twilio_pump' = [twilio_pump EXCEPT ![k] = "done"]
    /\ last' = [op |-> "twilio_end"]
    /\ UNCHANGED <<stepVars, admit_times, relayVars, admitted, gateVars, queueVars, clockVars,
                   registryVars, pc, call_of,
                   openai_pump, current_response_text, first_delta_at, fin_ref,
                   nevents>>

\* ---- handle_openai_to_twilio_and_events
\* A variant that puts the entry at the head of the list.
PrependEntry(transcript, role, message, at, began) ==
    <<[role |-> role, message |-> message, at |-> at, began |-> began]>>
        \o transcript

\* active_calls[call_sid]['transcript'].append({"role": ..., "message": ...});
\* `at` and `began` are history: the arrival numbers of the event that appended
\* the entry and of the first event that contributed text to it.
AppendEntry(transcript, role, message, at, began) ==
    Append(transcript, [role |-> role, message |-> message, at |-> at,
                        began |-> began])

\* The session table after the append to the session registered for call id c.
AppendTranscript(ss, ac, c, role, message, at, began) ==
    [ss EXCEPT ![ac[c]].transcript = AppendEntry(@, role, message, at, began)]

\* conversation.item.input_audio_transcription.completed
openai_transcription_completed(k, transcript) ==
    /\ openai_pump[k] = "running"
    /\ nevents < MaxEvents
    /\ nevents' = nevents + 1
    /\ sessions' = IF transcript # "" /\ call_of[k] \in DOMAIN active_calls
                   THEN AppendTranscript(sessions, active_calls, call_of[k],
                                         "caller", transcript, nevents', nevents')
                   ELSE sessions
    /\ last' = [op |-> "transcription_completed"]
    /\ UNCHANGED <<stepVars, admit_times, relayVars, admitted, gateVars, queueVars, clockVars,
                   active_calls, conversation_state,
                   pc, call_of, twilio_pump, openai_pump, current_response_text,
                   first_delta_at, fin_ref>>

\* response.text.delta: current_response_text += text_delta
openai_text_delta(k, text_delta) ==
    /\ openai_pump[k] = "running"
    /\ nevents < MaxEvents
    /\ nevents' = nevents + 1
    /\ current_response_text' =
           [current_response_text EXCEPT ![k] = @ \o text_delta]
    /\ first_delta_at' = [first_delta_at EXCEPT ![k] =
                              IF current_response_text[k] = "" THEN nevents' ELSE @]
    /\ last' = [op |-> "text_delta"]
    /\ UNCHANGED <<stepVars, admit_times, relayVars, admitted, gateVars, queueVars, clockVars,
                   registryVars, pc, call_of,
                   twilio_pump, openai_pump, fin_ref>>

\* response.text.done: commit the buffer, and clear it only when committed.
openai_text_done(k) ==
    /\ openai_pump[k] = "running"
    /\ nevents < MaxEvents
    /\ nevents' = nevents + 1
    /\ IF current_response_text[k] # "" /\ call_of[k] \in DOMAIN active_calls
       THEN /\ sessions' = AppendTranscript(sessions, active_calls, call_of[k],
                                            "bot", current_response_text[k],
                                            nevents', first_delta_at[k])
            /\ current_response_text' = [current_response_text EXCEPT ![k] = ""]
            /\ first_delta_at' = [first_delta_at EXCEPT ![k] = 0]
       ELSE UNCHANGED <<sessions, current_response_text, first_delta_at>>
    /\ last' = [op |-> "text_done", conn |-> k]
    /\ UNCHANGED <<stepVars, admit_times, relayVars, admitted, gateVars, queueVars, clockVars,
                   active_calls, conversation_state,
                   pc, call_of, twilio_pump, openai_pump, fin_ref>>

\* The backend socket closes: `async for message in openai_ws` ends.
openai_close(k) ==
    /\ openai_pump[k] = "running"
    /\ openai_pump' = [openai_pump EXCEPT ![k] = "done"]
    /\ last' = [op |-> "openai_close"]
    /\ UNCHANGED <<stepVars, admit_times, relayVars, admitted, gateVars, queueVars, clockVars,
                   registryVars, pc, call_of,
                   twilio_pump, current_response_text, first_delta_at, fin_ref,
                   nevents>>

\* ------------------------------------------------------------ the transcoder
RECURSIVE Gcd(_, _)
Gcd(a, b) == IF b = 0 THEN a ELSE Gcd(b, a % b)

\* The inner loop of audioop.ratecv for one channel: while d >= 0 a sample is
\* written and d -= inrate.
RECURSIVE ratecv_write(_, _, _)
ratecv_write(d, inrate, out) ==
    IF d >= 0 THEN ratecv_write(d - inrate, inrate, out + 1)
    ELSE [samples |-> out, state |-> d]

\* Its outer loop over len input samples from state d < 0: a sample is read,
\* d += outrate, and the inner loop runs; it returns when the input is used up.
\* The run over a fragment is the run over its first half followed, from the
\* state that leaves, by the run over the rest.
RECURSIVE ratecv_loop(_, _, _, _)
ratecv_loop(len, d, inrate, outrate) ==
    IF len = 0 THEN [samples |-> 0, state |-> d]
    ELSE IF len = 1 THEN ratecv_write(d + outrate, inrate, 0)
    ELSE LET first == ratecv_loop(len \div 2, d, inrate, outrate)
             rest == ratecv_loop(len - len \div 2, first.state, inrate, outrate)
         IN  [samples |-> first.samples + rest.samples, state |-> rest.state]

\* audioop.ratecv(fragment, width, 1, inrate, outrate, state) on a fragment of
\* nbytes bytes: it raises when the fragment is not a whole number of samples;
\* the rates are divided by their gcd and state None starts at d = -outrate.
ratecv(nbytes, width, inrate, outrate, state) ==
    IF nbytes % width # 0
    THEN [raised |-> TRUE]
    ELSE LET g == Gcd(inrate, outrate)
             d == IF state = None THEN 0 - (outrate \div g) ELSE state
             r == ratecv_loop(nbytes \div width, d, inrate \div g, outrate \div g)
         IN  [raised |-> FALSE, bytes |-> width * r.samples, state |-> r.state]

\* audioop.ulaw2lin(fragment, 2): two bytes for each mu-law byte.
ulaw2lin(nbytes, width) == nbytes * width

\* audioop.lin2ulaw(fragment, 2): one byte for each sample.
lin2ulaw(nbytes, width) == nbytes \div width

\* The two ratecv calls. Both pass None for the state, and both bind the state
\* ratecv returns to `_`.
upsample(mulaw_data) == ratecv(ulaw2lin(mulaw_data, 2), 2, 8000, 24000, None)
downsample(pcm_data) == ratecv(pcm_data, 2, 24000, 8000, None)

\* History: the filter state a converter's ratecv call was given and the one
\* it returned, for a call that returned.
FilterUse(call) ==
    IF call.raised THEN [returned |-> FALSE]
    ELSE [returned |-> TRUE, state_in |-> None, state_out |-> [d |-> call.state]]

\* mulaw_to_pcm16: the length of the frame it returns, 0 for b''.
mulaw_to_pcm16(mulaw_data) ==
    LET pcm_24k == upsample(mulaw_data)
    IN  IF pcm_24k.raised THEN 0 ELSE pcm_24k.bytes

\* A variant that drops the odd last byte of a fragment and converts the rest.
pcm16_to_mulaw_truncating(pcm_data) ==
    lin2ulaw(ratecv(2 * (pcm_data \div 2), 2, 24000, 8000, None).bytes, 2)

\* pcm16_to_mulaw: the length of the frame it returns, 0 for b''.
pcm16_to_mulaw(pcm_data) ==
    LET pcm_8k == downsample(pcm_data)
    IN  IF pcm_8k.raised THEN 0 ELSE lin2ulaw(pcm_8k.bytes, 2)

\* ---- handle_twilio_to_openai: the audio path
\* A variant without the try block inside the loop: an exception of a
\* message's handling ends the pump.
twilio_loop_unguarded(outcome) ==
    IF outcome \in {"break", "closed", "raised"} THEN "done" ELSE "running"

\* The loop after a message: an exception of the message's handling is caught
\* inside the loop; `break` and the end of iter_text leave it.
twilio_loop(outcome) == IF outcome \in {"break", "closed"} THEN "done" ELSE "running"

\* A variant that puts the message before the ones already sent.
Sent_first(messages, message) == <<message>> \o messages

\* The messages sent on a socket, after a send that returned.
Sent(messages, message) == Append(messages, message)

\* event 'media': decode, transcode, and send when the frame is not empty. `at`
\* is history: the arrival number of the frame. send_ok: openai_ws.send returns
\* rather than raises.
twilio_media(k, payload, send_ok) ==
    /\ twilio_pump[k] = "running"
    /\ nframes < MaxFrames
    /\ nframes' = nframes + 1
    /\ LET pcm_audio == IF payload.b64 THEN mulaw_to_pcm16(payload.bytes) ELSE 0
           sends == payload.b64 /\ pcm_audio # 0
           outcome == IF ~payload.b64 \/ (sends /\ ~send_ok) THEN "raised" ELSE "handled"
       IN  /\ sends \/ send_ok
           /\ to_openai' = IF sends /\ send_ok
                           THEN [to_openai EXCEPT ![k] =
                                    Sent(@, [audio |-> pcm_audio, at |-> nframes'])]
                           ELSE to_openai
           /\ twilio_pump' = [twilio_pump EXCEPT ![k] = twilio_loop(outcome)]
           /\ last' = [op |-> "twilio_media", conn |-> k, payload |-> payload,
                       sends |-> sends, send_ok |-> send_ok, outcome |-> outcome,
                       filter |-> IF payload.b64 THEN FilterUse(upsample(payload.bytes))
                                  ELSE [returned |-> FALSE]]
    /\ UNCHANGED <<stepVars, admit_times, admitted, gateVars, queueVars, clockVars, registryVars, pc,
                   call_of, openai_pump, current_response_text, first_delta_at,
                   fin_ref, nevents, to_twilio, transferred>>

\* A carrier message that is not JSON, has no 'event', has an event the loop
\* has no branch for, or is a 'media' event without a payload.
twilio_other(k, fault) ==
    /\ twilio_pump[k] = "running"
    /\ LET outcome == IF fault = "unknown_event" THEN "handled" ELSE "raised"
       IN  /\ twilio_pump' = [twilio_pump EXCEPT ![k] = twilio_loop(outcome)]
           /\ last' = [op |-> "twilio_other", conn |-> k, fault |-> fault,
                       outcome |-> outcome]
    /\ UNCHANGED <<stepVars, admit_times, relayVars, admitted, gateVars, queueVars, clockVars,
                   registryVars, pc, call_of, openai_pump, current_response_text,
                   first_delta_at, fin_ref, nevents>>

\* ---- handle_openai_to_twilio_and_events: the audio path and the other events
openai_loop(outcome) == IF outcome = "closed" THEN "done" ELSE "running"

\* A variant that takes the call for registered, connected and started.
CallInfo_assumed(c) == [stream_sid |-> "MZ1", connected |-> TRUE]

\* call_info = active_calls.get(call_sid, {}): the registered session, if any.
CallInfo(c) == IF c \in DOMAIN active_calls THEN sessions[active_calls[c]]
               ELSE [stream_sid |-> NoStreamSid, connected |-> FALSE]

\* response.audio.delta: an empty delta is passed over; else decode, transcode,
\* and send a media message when the session has a stream_sid, the frame is not
\* empty and the session is connected. send_ok: twilio_ws.send_json returns.
openai_audio_delta(k, delta, send_ok) ==
    /\ openai_pump[k] = "running"
    /\ nframes < MaxFrames
    /\ nframes' = nframes + 1
    /\ LET present == delta.b64 => delta.bytes # 0
           mulaw_audio == IF present /\ delta.b64 THEN pcm16_to_mulaw(delta.bytes)
                          ELSE 0
           call_info == CallInfo(call_of[k])
           sends == /\ present /\ delta.b64
                    /\ call_info.stream_sid \notin {NoStreamSid, ""}
                    /\ mulaw_audio # 0
                    /\ call_info.connected
           outcome == IF (present /\ ~delta.b64) \/ (sends /\ ~send_ok)
                      THEN "raised" ELSE "handled"
       IN  /\ sends \/ send_ok
           /\ to_twilio' = IF sends /\ send_ok
                           THEN [to_twilio EXCEPT ![k] =
                                    Sent(@, [streamSid |-> call_info.stream_sid,
                                             payload |-> mulaw_audio,
                                             at |-> nframes'])]
                           ELSE to_twilio
           /\ openai_pump' = [openai_pump EXCEPT ![k] = openai_loop(outcome)]
           /\ last' = [op |-> "audio_delta", conn |-> k, delta |-> delta,
                       sends |-> sends, send_ok |-> send_ok, outcome |-> outcome,
                       filter |-> IF present /\ delta.b64
                                  THEN FilterUse(downsample(delta.bytes))
                                  ELSE [returned |-> FALSE]]
    /\ UNCHANGED <<stepVars, admit_times, admitted, gateVars, queueVars, clockVars, registryVars, pc,
                   call_of, twilio_pump, current_response_text, first_delta_at,
                   fin_ref, nevents, to_openai, transferred>>

\* A backend message that is not JSON or has no 'type', an event the loop only
\* prints ('error', response.audio.done) or one of a type it does not know.
openai_other(k, event) ==
    /\ openai_pump[k] = "running"
    /\ LET outcome == IF event \in {"invalid_json", "no_type"} THEN "raised"
                      ELSE "handled"
       IN  /\ openai_pump' = [openai_pump EXCEPT ![k] = openai_loop(outcome)]
           /\ last' = [op |-> "openai_other", conn |-> k, event |-> event,
                       outcome |-> outcome]
    /\ UNCHANGED <<stepVars, admit_times, relayVars, admitted, gateVars, queueVars, clockVars,
                   registryVars, pc, call_of, twilio_pump, current_response_text,
                   first_delta_at, fin_ref, nevents>>

\* response.function_call_arguments.done: handle_transfer for transfer_to_human;
\* ok: the carrier's REST call returns rather than raises.
openai_function_call(k, name, ok) ==
    /\ openai_pump[k] = "running"
    /\ name = "transfer_to_human" \/ ok
    /\ LET calls == name = "transfer_to_human"
           outcome == IF calls /\ ~ok THEN "raised" ELSE "handled"
       IN  /\ transferred' = IF calls /\ ok THEN transferred \cup {call_of[k]}
                             ELSE transferred
           /\ openai_pump' = [openai_pump EXCEPT ![k] = openai_loop(outcome)]
           /\ last' = [op |-> "function_call", conn |-> k, name |-> name,
                       ok |-> ok, outcome |-> outcome]
    /\ UNCHANGED <<stepVars, admit_times, admitted, gateVars, queueVars, clockVars, registryVars, pc,
                   call_of, twilio_pump, current_response_text, first_delta_at,
                   fin_ref, nevents, to_openai, to_twilio, nframes>>

\* ---- the finally block of media_stream_handler
\* asyncio.gather has returned (both pumps ended): mark the session, then
\* `await openai_ws.close()`.
handler_finally(k) ==
    /\ pc[k] = "running"
    /\ twilio_pump[k] = "done"
    /\ openai_pump[k] = "done"
    /\ sessions' = MarkDisconnected(sessions, active_calls, call_of[k])
    /\ pc' = [pc EXCEPT ![k] = "closing"]
    /\ last' = [op |-> "finally"]
    /\ UNCHANGED <<stepVars, admit_times, relayVars, admitted, gateVars, queueVars, clockVars,
                   active_calls, conversation_state,
                   call_of, twilio_pump, openai_pump, current_response_text,
                   first_delta_at, fin_ref, nevents>>

\* The backend socket is closed: `await finalize_call(call_sid)` and the cleanup.
finalize_call(k) ==
    /\ pc[k] = "closing"
    /\ FinalizeAndCleanup(k, sessions)
    /\ last' = [op |-> "finalize"]
    /\ UNCHANGED <<stepVars, admit_times, relayVars, admitted, gateVars, queueVars, clockVars, call_of,
                   twilio_pump,
                   openai_pump, current_response_text, first_delta_at, nevents>>

\* finalize_call resumed with store_lock: it stores the list it took before it
\* suspended, and the handler deletes whatever is registered for the call id.
finalize_call_resume(k) ==
    /\ pc[k] = "finalize_wait"
    /\ store_lock = "free"
    /\ conversation_state' = Put(conversation_state, call_of[k],
                                 Stored(sessions[fin_ref[k]].transcript))
    /\ active_calls' = IF call_of[k] \in DOMAIN active_calls
                       THEN Del(active_calls, call_of[k]) ELSE active_calls
    /\ pc' = [pc EXCEPT ![k] = "done"]
    /\ fin_ref' = [fin_ref EXCEPT ![k] = 0]
    /\ sessions' = Collect(sessions, active_calls', HeldRefs(pc', fin_ref'))
    /\ last' = [op |-> "finalize"]
    /\ UNCHANGED <<stepVars, admit_times, relayVars, admitted, gateVars, queueVars, clockVars, call_of,
                   twilio_pump,
                   openai_pump, current_response_text, first_delta_at, nevents>>

\* ------------------------------------------------------------ main.py: the stepwise flow
\* main.py is a service of its own, with its own conversation_state and
\* issues_store. Its handlers have no await inside; each takes the threading
\* lock store_lock around what it reads and writes, so each is one step.
\* confirm_issue takes the lock twice, to read pending_issue and to append it;
\* a handler of the thread pool that runs between the two changes neither the
\* object read nor what is appended, so it is one step too.
company_names == <<"ThreatSpike Labs">>
num_to_company == [number \in {"+447808289493"} |-> 0]

\* The callers of the stepwise flow: the number of the table and the form's default.
MainFroms == {"+447808289493", "Unknown"}
Digit == {"1", "2", "3", "9"}

\* Every dict of sessions without the one of key c: conversation_state.pop(c, None).
Pop(d, c) == IF c \in DOMAIN d THEN Del(d, c) ELSE d

\* History: what /device_info and /explain_issue stored for c is forgotten when
\* the session of c is removed.
Forget(heard, c) == IF c \in CallSids THEN [heard EXCEPT ![c] = <<>>] ELSE heard

\* A variant that builds the record from the defaults alone.
PendingIssue_defaults(state, From, TranscriptionText, oid) ==
    [name |-> "Caller", number |-> From, company |-> "Unknown Company",
     system_info |-> "no device information", title |-> "Uncategorized Call",
     description |-> TranscriptionText, priority |-> "unknown",
     raw_transcription |-> IF TranscriptionText # "" THEN TranscriptionText
                           ELSE "(empty)",
     oid |-> oid]

\* state['pending_issue'] = CallData(...) of /transcription. oid is history: the
\* identity of the object, which the session and issues_store share.
PendingIssue(state, From, TranscriptionText, oid) ==
    [name |-> DictGet(state, "name", "Caller"),
     number |-> DictGet(state, "number", From),
     company |-> DictGet(state, "company", "Unknown Company"),
     system_info |-> DictGet(state, "system_info", "no device information"),
     title |-> "Uncategorized Call",
     description |-> TranscriptionText,
     priority |-> "unknown",
     raw_transcription |-> IF TranscriptionText # "" THEN TranscriptionText
                           ELSE "(empty)",
     oid |-> oid]

\* pending_issue.raw_transcription = text, seen through every reference to the
\* object in issues_store.
Overwritten(store, oid, text) ==
    [i \in 1..Len(store) |->
        IF store[i].oid = oid THEN [store[i] EXCEPT !.raw_transcription = text]
        ELSE store[i]]

\* POST /device_info. num_to_company[From] raises KeyError for a number that is
\* not in the table, after state['number'] = From: a session that exists has
\* been changed in place by then, a new dict is lost.
get_device_info(CallSid, SpeechResult, From) ==
    /\ LET state == DictGet(main_conversation_state, CallSid, <<>>)
           numbered == Put(state, "number", From)
       IN  IF From \notin DOMAIN num_to_company
           THEN /\ main_conversation_state' =
                       IF CallSid \in DOMAIN main_conversation_state
                       THEN Put(main_conversation_state, CallSid, numbered)
                       ELSE main_conversation_state
                /\ main_heard' =
                       IF CallSid \in DOMAIN main_conversation_state
                       THEN [main_heard EXCEPT ![CallSid] = Put(@, "number", From)]
                       ELSE main_heard
                /\ last' = [op |-> "device_info", CallSid |-> CallSid,
                            status |-> "raised"]
           ELSE LET company == company_names[num_to_company[From] + 1]
                    name == IF SpeechResult # "" THEN SpeechResult
                            ELSE DictGet(state, "name", "Caller")
                IN  /\ main_conversation_state' =
                           Put(main_conversation_state, CallSid,
                               Put(Put(numbered, "company", company), "name", name))
                    /\ main_heard' =
                           [main_heard EXCEPT ![CallSid] =
                               Put(Put(Put(@, "number", From), "company", company),
                                   "name", name)]
                    /\ last' = [op |-> "device_info", CallSid |-> CallSid,
                                status |-> "ok"]
    /\ UNCHANGED <<main_issues_store, main_enqueued, admit_times, relayVars,
                   admitted, gateVars, queueVars, clockVars, connVars, registryVars>>

\* POST /explain_issue
explain_issue(CallSid, TranscriptionText) ==
    /\ LET state == DictGet(main_conversation_state, CallSid, <<>>)
           system_info == IF TranscriptionText # "" THEN TranscriptionText
                          ELSE "failed to record speech"
       IN  /\ main_conversation_state' =
                  Put(main_conversation_state, CallSid,
                      Put(state, "system_info", system_info))
           /\ main_heard' = [main_heard EXCEPT ![CallSid] =
                                Put(@, "system_info", system_info)]
    /\ last' = [op |-> "explain_issue", CallSid |-> CallSid]
    /\ UNCHANGED <<main_issues_store, main_enqueued, admit_times, relayVars,
                   admitted, gateVars, queueVars, clockVars, connVars, registryVars>>

\* POST /transcription. Without overwritten_issue_SID it builds the record,
\* keeps it in the session as pending_issue and appends it; the pop that
\* follows has the key None. With it, it overwrites the text of the pending
\* record of that call id, appends the record again and removes the session;
\* the assert raises when there is no pending record.
transcription(CallSid, From, TranscriptionText, overwritten_issue_SID) ==
    /\ Total(main_enqueued) < MaxIssues
    /\ IF overwritten_issue_SID = NoCallSid
       THEN LET state == DictGet(main_conversation_state, CallSid, <<>>)
                pending_issue == PendingIssue(state, From, TranscriptionText,
                                              Total(main_enqueued) + 1)
            IN  /\ main_conversation_state' =
                       Put(main_conversation_state, CallSid,
                           Put(state, "pending_issue", pending_issue))
                /\ main_issues_store' = Append(main_issues_store, pending_issue)
                /\ main_enqueued' = [main_enqueued EXCEPT ![CallSid] = @ + 1]
                /\ last' = [op |-> "transcription", CallSid |-> CallSid,
                            status |-> "saved"]
                /\ UNCHANGED main_heard
       ELSE LET state == DictGet(main_conversation_state, overwritten_issue_SID, <<>>)
            IN  IF "pending_issue" \notin DOMAIN state
                THEN /\ last' = [op |-> "transcription",
                                 CallSid |-> overwritten_issue_SID,
                                 status |-> "raised"]
                     /\ UNCHANGED <<main_conversation_state, main_issues_store,
                                    main_enqueued, main_heard>>
                ELSE LET pending_issue ==
                             [state["pending_issue"] EXCEPT
                                 !.raw_transcription = TranscriptionText]
                     IN  /\ main_issues_store' =
                                Append(Overwritten(main_issues_store, pending_issue.oid,
                                                   TranscriptionText),
                                       pending_issue)
                         /\ main_conversation_state' =
                                Pop(main_conversation_state, overwritten_issue_SID)
                         /\ main_enqueued' =
                                [main_enqueued EXCEPT ![overwritten_issue_SID] = @ + 1]
                         /\ main_heard' = Forget(main_heard, overwritten_issue_SID)
                         /\ last' = [op |-> "transcription",
                                     CallSid |-> overwritten_issue_SID,
                                     status |-> "saved again"]
    /\ UNCHANGED <<admit_times, relayVars, admitted, gateVars, queueVars, clockVars,
                   connVars, registryVars>>

\* POST /confirm_issue: 1 appends the pending record and removes the session,
\* 3 removes the session, 2 and any other digit answer with TwiML only.
confirm_issue(original_SID, Digits) ==
    /\ LET state == DictGet(main_conversation_state, original_SID, <<>>)
       IN  IF "pending_issue" \notin DOMAIN state
           THEN /\ last' = [op |-> "confirm_issue", CallSid |-> original_SID,
                            Digits |-> Digits, status |-> "not found"]
                /\ UNCHANGED <<stepVars>>
           ELSE /\ last' = [op |-> "confirm_issue", CallSid |-> original_SID,
                            Digits |-> Digits, status |-> "found"]
                /\ IF Digits = "1"
                   THEN /\ Total(main_enqueued) < MaxIssues
                        /\ main_issues_store' =
                               Append(main_issues_store, state["pending_issue"])
                        /\ main_enqueued' =
                               [main_enqueued EXCEPT ![original_SID] = @ + 1]
                        /\ main_conversation_state' =
                               Pop(main_conversation_state, original_SID)
                        /\ main_heard' = Forget(main_heard, original_SID)
                   ELSE IF Digits = "3"
                        THEN /\ main_conversation_state' =
                                    Pop(main_conversation_state, original_SID)
                             /\ main_heard' = Forget(main_heard, original_SID)
                             /\ UNCHANGED <<main_issues_store, main_enqueued>>
                        ELSE UNCHANGED <<stepVars>>
    /\ UNCHANGED <<admit_times, relayVars, admitted, gateVars, queueVars, clockVars,
                   connVars, registryVars>>

\* GET /poll_and_clear/
poll_and_clear ==
    /\ main_issues_store' = <<>>
    /\ last' = [op |-> "poll_and_clear"]
    /\ UNCHANGED <<main_conversation_state, main_enqueued, main_heard, admit_times,
                   relayVars, admitted, gateVars, queueVars, clockVars, connVars,
                   registryVars>>

\* ------------------------------------------------------------ specifications
EndFroms == {NumGood}

GateNext ==
    \/ \E d \in Steps : Tick(d)
    \/ \E CallSid \in CallSids \cup {NoCallSid}, From \in Froms :
           start_call(CallSid, From)
    \/ start_call_sweep

QueueNext ==
    \/ \E authorized \in BOOLEAN : poll(authorized)
    \/ \E CallSid \in CallSids \cup {NoCallSid}, From \in EndFroms :
           get_issue_type(CallSid, From)
    \/ \E content \in Replies : get_issue_type_resume(content)

SessionNext ==
    \/ \E k \in Conns, c \in CallSids : media_stream_handler(k, c)
    \/ \E k \in Conns, ok \in BOOLEAN : connect_to_openai_realtime(k, ok)
    \/ \E k \in Conns, streamSid \in StreamSids : twilio_start(k, streamSid)
    \/ \E k \in Conns : twilio_end(k)
    \/ \E k \in Conns, transcript \in CallerTexts :
           openai_transcription_completed(k, transcript)
    \/ \E k \in Conns, text_delta \in DeltaTexts : openai_text_delta(k, text_delta)
    \/ \E k \in Conns : openai_text_done(k)
    \/ \E k \in Conns : openai_close(k)
    \/ \E k \in Conns, payload \in CarrierPayloads \cup CarrierFrames,
          send_ok \in BOOLEAN :
           twilio_media(k, payload, send_ok)
    \/ \E k \in Conns, fault \in TwilioFaults : twilio_other(k, fault)
    \/ \E k \in Conns, delta \in BackendDeltas \cup BackendFrames,
          send_ok \in BOOLEAN :
           openai_audio_delta(k, delta, send_ok)
    \/ \E k \in Conns, event \in OpenAIOthers : openai_other(k, event)
    \/ \E k \in Conns, name \in FunctionNames, ok \in BOOLEAN :
           openai_function_call(k, name, ok)
    \/ \E k \in Conns : handler_finally(k)
    \/ \E k \in Conns : finalize_call(k)
    \/ \E k \in Conns : finalize_call_resume(k)

Next == GateNext \/ QueueNext \/ SessionNext

\* The whole service.
Spec == Init /\ [][Next]_vars

\* The stepwise service of main.py, a process of its own.
MainNext ==
    \/ \E CallSid \in CallSids, SpeechResult \in {"", "Ann"}, From \in MainFroms :
           get_device_info(CallSid, SpeechResult, From)
    \/ \E CallSid \in CallSids, TranscriptionText \in {"", "pc"} :
           explain_issue(CallSid, TranscriptionText)
    \/ \E CallSid \in CallSids, From \in MainFroms, TranscriptionText \in {"", "pc"},
          overwritten_issue_SID \in CallSids \cup {NoCallSid} :
           transcription(CallSid, From, TranscriptionText, overwritten_issue_SID)
    \/ \E original_SID \in CallSids, Digits \in Digit :
           confirm_issue(original_SID, Digits)
    \/ poll_and_clear

MainSpec == Init /\ [][MainNext]_vars

\* The admission gate under the clock: /voice requests with and without a call
\* id, from one good caller, from a malformed number, without a number and from
\* the blocked numbers, while the clock advances by a second or by an hour.
GateFroms == {NumGood, NumNoPlus, NumMissing} \cup BLOCKED_NUMBERS

GateSpecNext ==
    \/ \E d \in {1, HOUR} : Tick(d)
    \/ \E CallSid \in {"CA1", NoCallSid}, From \in GateFroms :
           start_call(CallSid, From)

GateSpec == Init /\ [][GateSpecNext]_vars

\* The session registry: two media-stream connections, for the same call id or
\* for two, with the carrier's start message, caller transcriptions and the
\* teardown. Call ids are interchangeable, so the first connection is CA1's.
RegistrySpecNext ==
    \/ media_stream_handler(1, "CA1")
    \/ \E c \in CallSids : media_stream_handler(2, c)
    \/ \E k \in Conns, ok \in BOOLEAN : connect_to_openai_realtime(k, ok)
    \/ \E k \in Conns, streamSid \in StreamSids : twilio_start(k, streamSid)
    \/ \E k \in Conns : twilio_end(k)
    \/ \E k \in Conns : openai_transcription_completed(k, "hi")
    \/ \E k \in Conns : openai_close(k)
    \/ \E k \in Conns : handler_finally(k)
    \/ \E k \in Conns : finalize_call(k)

RegistrySpec == Init /\ [][RegistrySpecNext]_vars

\* The transcript of one media-stream session under every backend event that
\* bears on it, in every order.
TranscriptSpecNext ==
    \/ media_stream_handler(1, "CA1")
    \/ \E ok \in BOOLEAN : connect_to_openai_realtime(1, ok)
    \/ \E streamSid \in StreamSids : twilio_start(1, streamSid)
    \/ twilio_end(1)
    \/ \E transcript \in CallerTexts : openai_transcription_completed(1, transcript)
    \/ \E text_delta \in DeltaTexts : openai_text_delta(1, text_delta)
    \/ openai_text_done(1)
    \/ openai_close(1)
    \/ handler_finally(1)
    \/ finalize_call(1)

TranscriptSpec == Init /\ [][TranscriptSpecNext]_vars

\* A call from its media stream to the issue queue: the sessions of call id
\* CA1 with caller transcriptions only, /end_call with every summariser reply,
\* /poll, admitted /voice requests of one caller, and the clock advancing by the
\* retention period.
QueueSpecNext ==
    \/ Tick(RETENTION)
    \/ start_call("CA2", NumGood)
    \/ start_call_sweep
    \/ poll(TRUE)
    \/ \E CallSid \in {"CA1"}, From \in EndFroms : get_issue_type(CallSid, From)
    \/ \E content \in Replies : get_issue_type_resume(content)
    \/ media_stream_handler(1, "CA1")
    \/ \E ok \in BOOLEAN : connect_to_openai_realtime(1, ok)
    \/ twilio_end(1)
    \/ openai_transcription_completed(1, "hi")
    \/ openai_close(1)
    \/ handler_finally(1)
    \/ finalize_call(1)

QueueSpec == Init /\ [][QueueSpecNext]_vars

\* ------------------------------------------------------------ the issue queue
\* A record of the store before a step is still in the store after it, as it
\* was or marked visited.
Retained(issue, store) ==
    \E j \in 1..Len(store) :
        store[j] = issue \/ store[j] = [issue EXCEPT !.visited = TRUE]

\* C1: a step removes a record from issues_store only if the record is at
\* least as old as the retention period and has been returned by a poll (it was
\* visited before the step, or the step is the poll that returns it); a record
\* never returned by a poll is never removed.
C1_SweepRemovesOnlyVisitedOld ==
    [][\A i \in 1..Len(issues_store) :
          ~Retained(issues_store[i], issues_store') =>
              /\ now - issues_store[i].timestamp >= RETENTION
              /\ (issues_store[i].visited \/ last'.op = "poll")]_vars

\* C2: however often /end_call runs for a call id, exactly one record is
\* appended to issues_store for it: never a second one.
C2_OneRecordPerCall == \A c \in CallSids : enqueued[c] <= 1

\* C3: a call whose media stream ran, whose handler has finished finalize_call
\* and whose /end_call request has returned has a record in the queue's
\* history, whatever its transcript and whichever of the two came first.
C3_EndedCallHasRecord ==
    \A k \in Conns :
        (/\ pc[k] = "done"
         /\ twilio_pump[k] = "done"
         /\ call_of[k] \in end_called
         /\ (pending = None \/ pending.CallSid # call_of[k]))
            => enqueued[call_of[k]] >= 1

\* C4: when the summariser's reply is a failure of any kind, /end_call saves a
\* fallback record: title "Uncategorized Call", priority "unknown", the fixed
\* failure description, and the transcript's messages unchanged and in order.
C4_FailedSummaryFallback ==
    (last.op = "end_call" /\ last.status \in {"saved", "raised"}
        /\ last.content \in FailedReplies)
        => /\ last.status = "saved"
           /\ issues_store # <<>>
           /\ LET issue == issues_store[Len(issues_store)]
              IN  /\ issue.title = "Uncategorized Call"
                  /\ issue.priority = "unknown"
                  /\ issue.description = default.description
                  /\ issue.raw_transcription = Messages(last.raw_transcript)

\* ------------------------------------------------------------ the registry
\* C5: a media-stream connection for a call id that has a registered session
\* leaves that session registered and as it was.
C5_CreateKeepsLiveSession ==
    [][\A c \in DOMAIN active_calls :
          (last'.op = "connect" /\ last'.CallSid = c)
              => /\ c \in DOMAIN active_calls'
                 /\ active_calls'[c] = active_calls[c]
                 /\ active_calls[c] \in DOMAIN sessions'
                 /\ sessions'[active_calls[c]] = sessions[active_calls[c]]]_vars

\* ------------------------------------------------------------ the gate
\* The timestamps of a caller's window within the trailing hour at time t.
Recent(log, number, t) ==
    {i \in 1..Len(Window(log, number)) : Window(log, number)[i] >= t - HOUR}

\* The step is a /voice request that carries a call id, from a caller whose
\* number is E.164 and not blocked.
VoiceFromEligible(From) ==
    /\ last'.op = "voice"
    /\ last'.From = From
    /\ last'.CallSid # NoCallSid
    /\ is_e164(From)
    /\ ~is_blocked(From)

\* C6: a /voice request from an E.164, unblocked caller with fewer than
\* MAX_REQUESTS_PER_HOUR timestamps in the trailing hour is admitted, and the
\* caller's window then holds those timestamps and exactly one more.
C6_AdmitAddsOneTimestamp ==
    [][\A From \in Froms :
          (/\ VoiceFromEligible(From)
           /\ Cardinality(Recent(rate_limit_log, From, now)) < MAX_REQUESTS_PER_HOUR)
              => /\ last'.status = "admitted"
                 /\ Len(rate_limit_log'[From]) =
                        Cardinality(Recent(rate_limit_log, From, now)) + 1
                 /\ rate_limit_log'[From][Len(rate_limit_log'[From])] = now]_vars

\* A caller was admitted although the window held timestamps, some of them
\* older than an hour and some not.
C6_Witness ==
    /\ last.op = "voice"
    /\ last.status = "admitted"
    /\ last.before >= 2
    /\ Len(rate_limit_log[last.From]) >= 2
    /\ Len(rate_limit_log[last.From]) <= last.before

\* C7: with the window holding MAX_REQUESTS_PER_HOUR admitted calls, the next
\* /voice request of the caller is rejected as rate limited while the oldest of
\* them is within the trailing hour, and admitted once it is older than an hour.
C7_LimitThenReadmit ==
    [][\A From \in Froms :
          (/\ VoiceFromEligible(From)
           /\ Len(Window(rate_limit_log, From)) = MAX_REQUESTS_PER_HOUR)
              => IF now - Window(rate_limit_log, From)[1] <= HOUR
                 THEN last'.status = "rejected" /\ last'.RateLimited
                 ELSE last'.status = "admitted"]_vars

\* A caller whose window was full is admitted again: its oldest call aged out.
C7_Witness ==
    /\ last.op = "voice"
    /\ last.status = "admitted"
    /\ last.before = MAX_REQUESTS_PER_HOUR

\* C8: a /voice request whose caller number fails E.164 validation changes
\* neither the sessions, nor issues_store, nor the rate-limit store.
C8_InvalidNumberTouchesNothing ==
    [][(last'.op = "voice" /\ last'.status = "rejected" /\ ~last'.E164)
          => /\ rate_limit_log' = rate_limit_log
             /\ issues_store' = issues_store
             /\ active_calls' = active_calls
             /\ sessions' = sessions]_vars

\* The deque after is what is left of the deque before once its head is pruned.
IsSuffix(after, before) ==
    \E i \in 0..Len(before) : after = SubSeq(before, i + 1, Len(before))

\* C9: a caller's window gains a timestamp only in a step that admits a /voice
\* request of that caller; every other step, a rejected request included,
\* leaves the window as it was or pruned.
C9_OnlyAdmittedCallsAreLogged ==
    [][\A From \in Froms :
          ~IsSuffix(Window(rate_limit_log', From), Window(rate_limit_log, From))
              => /\ last'.op = "voice"
                 /\ last'.status = "admitted"
                 /\ last'.From = From]_vars

\* A request was rejected as rate limited, its caller's window being full.
C9_Witness ==
    /\ last.op = "voice"
    /\ last.status = "rejected"
    /\ last.RateLimited
    /\ Len(rate_limit_log[last.From]) = MAX_REQUESTS_PER_HOUR

\* ------------------------------------------------------------ the transcript
\* The transcripts the service holds: of the sessions and of conversation_state.
Transcripts ==
    {sessions[o].transcript : o \in DOMAIN sessions}
        \cup {conversation_state[c].raw_transcript : c \in DOMAIN conversation_state}

\* C10: the entries of a transcript are in the arrival order of the backend
\* events that appended them (the caller's transcription-completed event, the
\* bot's text.done), and a bot entry never began after it was appended.
C10_TranscriptInArrivalOrder ==
    \A t \in Transcripts :
        /\ \A i, j \in 1..Len(t) : i < j => t[i].at < t[j].at
        /\ \A i \in 1..Len(t) : t[i].began <= t[i].at

\* A bot utterance of several deltas was committed after a caller entry whose
\* event arrived between its first delta and its done marker.
C10_Witness ==
    \E t \in Transcripts :
        \E i, j \in 1..Len(t) :
            /\ i < j
            /\ t[i].role = "caller"
            /\ t[j].role = "bot"
            /\ Len(t[j].message) >= 2
            /\ t[j].began < t[i].at
            /\ t[i].at < t[j].at

\* ------------------------------------------------------------ /poll
\* The queue between /end_call and the poller: one call leaves a transcript,
\* /end_call enqueues a summarised or a fallback record for it, the poller
\* polls, admitted /voice requests sweep, and the clock advances by the
\* retention period.
PollSpecNext ==
    \/ Tick(RETENTION)
    \/ start_call("CA2", NumGood)
    \/ start_call_sweep
    \/ poll(TRUE)
    \/ get_issue_type("CA1", NumGood)
    \/ \E content \in {ReplyGood, ReplyText} : get_issue_type_resume(content)
    \/ media_stream_handler(1, "CA1")
    \/ connect_to_openai_realtime(1, TRUE)
    \/ openai_transcription_completed(1, "hi")
    \/ twilio_end(1)
    \/ openai_close(1)
    \/ handler_finally(1)
    \/ finalize_call(1)

PollSpec == Init /\ [][PollSpecNext]_vars

AllVisited(store) == \A i \in 1..Len(store) : store[i].visited

Unexpired(store, t) == \A i \in 1..Len(store) : store[i].timestamp > t - RETENTION

Enqueues(label) == label.op = "end_call" /\ label.status = "saved"

\* C11: an authorized /poll returns every record of issues_store, in the order
\* of the store, each shown visited, and leaves every kept record visited; and
\* once all records are visited, a step that neither enqueues nor finds one of
\* them expired leaves the store as it is, so the next /poll returns the same
\* records in the same order.
C11_PollSnapshotAndRepoll ==
    [][/\ (last'.op = "poll" /\ last'.status = 200) =>
              /\ Len(last'.issues) = Len(issues_store)
              /\ \A i \in 1..Len(issues_store) :
                     last'.issues[i] = [issues_store[i] EXCEPT !.visited = TRUE]
              /\ AllVisited(issues_store')
       /\ (AllVisited(issues_store) /\ Unexpired(issues_store, now')
              /\ ~Enqueues(last')) =>
              /\ issues_store' = issues_store
              /\ (last'.op = "poll" /\ last'.status = 200) =>
                     last'.issues = issues_store]_vars

\* A second /poll has returned the two records the first one returned.
C11_Witness ==
    /\ last.op = "poll"
    /\ last.status = 200
    /\ Len(last.issues) = 2
    /\ last.issues[1] # last.issues[2]
    /\ last.seen = 2
    /\ issues_store = last.issues

\* ------------------------------------------------------------ session teardown
\* The handlers that have invoked finalize_call(c): a handler invokes it once,
\* in its finally block, and is then suspended in it or past it.
FinalizeInvocations(c) ==
    {k \in Conns : call_of[k] = c /\ pc[k] \in {"finalize_wait", "done"}}

\* C12: however a media-stream session ends, finalize_call is invoked exactly
\* once for its call id. This is the half of it a finite run can refute:
\* finalize_call is never invoked twice for one call id.
C12_FinalizeAtMostOnce ==
    \A c \in CallSids : Cardinality(FinalizeInvocations(c)) <= 1

\* ------------------------------------------------------------ the relay
\* One media-stream session with everything its two pumps can receive: the
\* carrier's start, media, stop and unreadable messages, the backend's audio
\* deltas, function calls, error and unknown events, sends that fail, and
\* either socket closing.
RelaySpecNext ==
    \/ media_stream_handler(1, "CA1")
    \/ \E ok \in BOOLEAN : connect_to_openai_realtime(1, ok)
    \/ \E streamSid \in StreamSids : twilio_start(1, streamSid)
    \/ \E payload \in CarrierPayloads, send_ok \in BOOLEAN :
           twilio_media(1, payload, send_ok)
    \/ \E fault \in TwilioFaults : twilio_other(1, fault)
    \/ twilio_end(1)
    \/ \E delta \in BackendDeltas, send_ok \in BOOLEAN :
           openai_audio_delta(1, delta, send_ok)
    \/ \E event \in OpenAIOthers : openai_other(1, event)
    \/ \E name \in FunctionNames, ok \in BOOLEAN : openai_function_call(1, name, ok)
    \/ openai_close(1)
    \/ handler_finally(1)
    \/ finalize_call(1)

RelaySpec == Init /\ [][RelaySpecNext]_vars

\* ------------------------------------------------------------ the transcoder
\* One session relaying whole carrier frames to the backend and the backend's
\* frames to the carrier.
TranscodeSpecNext ==
    \/ media_stream_handler(1, "CA1")
    \/ connect_to_openai_realtime(1, TRUE)
    \/ \E streamSid \in StreamSids : twilio_start(1, streamSid)
    \/ \E payload \in CarrierFrames : twilio_media(1, payload, TRUE)
    \/ twilio_end(1)
    \/ \E delta \in BackendFrames : openai_audio_delta(1, delta, TRUE)
    \/ openai_close(1)
    \/ handler_finally(1)
    \/ finalize_call(1)

TranscodeSpec == Init /\ [][TranscodeSpecNext]_vars

\* C13: a carrier frame of 240 samples (240 mu-law bytes) goes to the backend
\* as 720 samples of 16 bits, and pcm16_to_mulaw of that frame has 240 samples
\* again.
C13_FrameKeepsSampleCount ==
    (/\ last.op = "twilio_media"
     /\ last.payload = [b64 |-> TRUE, bytes |-> 240]) =>
        LET message == to_openai[last.conn][Len(to_openai[last.conn])]
        IN  /\ message.audio = 2 * 720
            /\ pcm16_to_mulaw(message.audio) = 240

\* ------------------------------------------------------------ cancellation
\* The relay with its own steps weakly fair: a handler whose pumps have both
\* returned goes on to its finally block, and from there to finalize_call.
\* What the carrier and the backend send, and when they close, is up to them.
FairRelaySpec ==
    /\ Init
    /\ [][RelaySpecNext]_vars
    /\ WF_vars(handler_finally(1))
    /\ WF_vars(finalize_call(1))

\* The session of connection k has begun to end: the carrier sent stop or its
\* socket closed, the backend's socket closed, or the backend sent an error.
Ending(k) ==
    /\ pc[k] = "running"
    /\ \/ twilio_pump[k] = "done"
       \/ openai_pump[k] = "done"
       \/ (last.op = "openai_other" /\ last.conn = k /\ last.event = "error")

\* Both pumps of connection k have returned and the handler has closed the
\* backend socket (it is in finalize_call or past it).
Cancelled(k) ==
    /\ twilio_pump[k] = "done"
    /\ openai_pump[k] = "done"
    /\ pc[k] \in {"finalize_wait", "done"}

\* C14: once the carrier has sent stop, either socket has closed or the
\* backend has sent an error event, both pumps stop and the sockets are
\* closed, whether or not the other side ever ends the connection itself.
C14_EndingCancelsBothPumps == Ending(1) ~> Cancelled(1)

\* ------------------------------------------------------------ admission order
\* C15: admission checks the format, then the blocklist, then the rate limit,
\* and stops at the first check that fails: a /voice request of a blocked
\* caller (with a number in E.164 format, so the blocklist is the first check
\* to fail) is rejected with the rate-limit windows as they were, the caller's
\* window neither read (which creates and prunes it) nor written. The caller
\* with a number not in E.164 format is C8's.
C15_BlockedBeforeRateLimit ==
    [][(/\ last'.op = "voice"
        /\ last'.status # "error"
        /\ is_e164(last'.From)
        /\ is_blocked(last'.From)) =>
           /\ last'.status = "rejected"
           /\ rate_limit_log' = rate_limit_log]_vars

\* ------------------------------------------------------------ admission and sessions
\* /voice requests for either call id, from a caller the gate admits and from
\* one it rejects, and a media-stream connection for either call id.
AdmitSpecNext ==
    \/ \E CallSid \in CallSids, From \in {NumGood, NumNoPlus} :
           start_call(CallSid, From)
    \/ \E c \in CallSids : media_stream_handler(1, c)
    \/ \E ok \in BOOLEAN : connect_to_openai_realtime(1, ok)
    \/ twilio_end(1)
    \/ openai_close(1)
    \/ handler_finally(1)
    \/ finalize_call(1)

AdmitSpec == Init /\ [][AdmitSpecNext]_vars

\* C16: a session is registered in active_calls only for a call id whose
\* /voice request passed the admission checks.
C16_SessionsOnlyForAdmitted == \A c \in DOMAIN active_calls : c \in admitted

\* ------------------------------------------------------------ the bot's buffer
\* The bot's text on one connection while a second connection for the same
\* call id comes and goes.
BufferSpecNext ==
    \/ \E k \in Conns : media_stream_handler(k, "CA1")
    \/ \E k \in Conns, ok \in BOOLEAN : connect_to_openai_realtime(k, ok)
    \/ \E text_delta \in DeltaTexts : openai_text_delta(1, text_delta)
    \/ openai_text_done(1)
    \/ \E k \in Conns : twilio_end(k)
    \/ \E k \in Conns : openai_close(k)
    \/ \E k \in Conns : handler_finally(k)
    \/ \E k \in Conns : finalize_call(k)

BufferSpec == Init /\ [][BufferSpecNext]_vars

\* C17: every response.text.done leaves the connection's buffer empty, having
\* committed its text as one bot entry or having skipped the commit (the
\* buffer was empty, or the call id is not registered), so no text is left to
\* go into the next entry.
C17_DoneClearsBuffer ==
    [][last'.op = "text_done" => current_response_text'[last'.conn] = ""]_vars

\* ------------------------------------------------------------ the audio path
\* A carrier payload that is no frame: base64 that does not decode, or nothing.
MalformedPayload(payload) == ~payload.b64 \/ payload.bytes = 0

\* A backend delta that is no frame: base64 that does not decode, nothing, or
\* bytes that are not a whole number of 16-bit samples.
MalformedDelta(delta) == ~delta.b64 \/ delta.bytes = 0 \/ delta.bytes % 2 # 0

\* C18: for an audio payload that is malformed or does not decode, the
\* transcoder returns the empty frame when it is reached, nothing is sent to
\* the other socket, and the pump stays in its loop for the next message.
C18_MalformedFrameSkipped ==
    [][/\ (last'.op = "twilio_media" /\ MalformedPayload(last'.payload)) =>
              /\ last'.payload.b64 => mulaw_to_pcm16(last'.payload.bytes) = 0
              /\ to_openai' = to_openai
              /\ twilio_pump'[last'.conn] = "running"
       /\ (last'.op = "audio_delta" /\ MalformedDelta(last'.delta)) =>
              /\ last'.delta.b64 => pcm16_to_mulaw(last'.delta.bytes) = 0
              /\ to_twilio' = to_twilio
              /\ openai_pump'[last'.conn] = "running"]_vars

\* The backend pump has just passed over a delta of 7 bytes, on a session that
\* has its stream_sid, is connected and has had a frame sent to the carrier.
C18_Witness ==
    /\ last.op = "audio_delta"
    /\ last.delta = [b64 |-> TRUE, bytes |-> 7]
    /\ CallInfo("CA1").stream_sid \in StreamSids
    /\ CallInfo("CA1").connected
    /\ to_twilio[1] # <<>>
    /\ openai_pump[1] = "running"

\* ------------------------------------------------------------ error confinement
TwilioOps == {"twilio_media", "twilio_other"}
OpenAIOps == {"audio_delta", "openai_other", "function_call"}

\* The step handled a message that raised in its handling (text that is not
\* JSON, a missing discriminator or field, base64 that does not decode, a send
\* or a transfer call that fails) or that has a discriminator the loop does not
\* know.
Faulty(label) ==
    /\ label.op \in TwilioOps \cup OpenAIOps
    /\ \/ label.outcome = "raised"
       \/ (label.op = "twilio_other" /\ label.fault = "unknown_event")
       \/ (label.op = "openai_other" /\ label.event = "unknown_type")

\* C19: a message whose handling fails changes neither the sessions nor what
\* was sent, and leaves its pump in the loop; and a pump leaves its loop only
\* in the step of a stop event or of its input socket closing or failing.
C19_ErrorsConfinedToMessage ==
    [][/\ Faulty(last') =>
              /\ UNCHANGED <<registryVars, to_openai, to_twilio, transferred>>
              /\ last'.op \in TwilioOps => twilio_pump'[last'.conn] = "running"
              /\ last'.op \in OpenAIOps => openai_pump'[last'.conn] = "running"
       /\ \A k \in Conns :
              /\ (twilio_pump[k] = "running" /\ twilio_pump'[k] = "done") =>
                     last'.op = "twilio_end"
              /\ (openai_pump[k] = "running" /\ openai_pump'[k] = "done") =>
                     last'.op = "openai_close"]_vars

\* The carrier pump is still in its loop after a send to the backend failed,
\* following a frame that was sent.
C19_Witness ==
    /\ last.op = "twilio_media"
    /\ last.sends
    /\ ~last.send_ok
    /\ last.outcome = "raised"
    /\ to_openai[1] # <<>>
    /\ twilio_pump[1] = "running"

\* ------------------------------------------------------------ audio order
\* The messages are in the order their frames arrived, one for a frame.
InArrivalOrder(messages) ==
    \A i, j \in 1..Len(messages) : i < j => messages[i].at < messages[j].at

\* C20: what a connection has sent to the backend grows only by the step of a
\* carrier media frame that is valid (it decodes and transcodes to a frame
\* that is not empty) and whose send returns, and then by that frame's one
\* message, at the end; likewise what it has sent to the carrier and the
\* backend's audio deltas that are forwarded. So each sequence sent is the
\* sequence of those frames in the order they arrived.
C20_AudioInInputOrder ==
    [][\A k \in Conns :
          /\ IF /\ last'.op = "twilio_media" /\ last'.conn = k
                /\ ~MalformedPayload(last'.payload)
                /\ last'.send_ok
             THEN to_openai'[k] =
                      Append(to_openai[k],
                             [audio |-> mulaw_to_pcm16(last'.payload.bytes),
                              at |-> nframes'])
             ELSE to_openai'[k] = to_openai[k]
          /\ IF /\ last'.op = "audio_delta" /\ last'.conn = k
                /\ ~MalformedDelta(last'.delta)
                /\ CallInfo(call_of[k]).stream_sid \in StreamSids
                /\ CallInfo(call_of[k]).connected
                /\ last'.send_ok
             THEN to_twilio'[k] =
                      Append(to_twilio[k],
                             [streamSid |-> CallInfo(call_of[k]).stream_sid,
                              payload |-> pcm16_to_mulaw(last'.delta.bytes),
                              at |-> nframes'])
             ELSE to_twilio'[k] = to_twilio[k]
          /\ InArrivalOrder(to_openai'[k])
          /\ InArrivalOrder(to_twilio'[k])]_vars

\* Two carrier frames of different length have gone to the backend in their
\* order, the second just now, and a backend frame has gone to the carrier.
C20_Witness ==
    /\ last.op = "twilio_media"
    /\ Len(to_openai[1]) = 2
    /\ to_openai[1][1].audio # to_openai[1][2].audio
    /\ to_openai[1][2].at = nframes
    /\ Len(to_twilio[1]) = 1

\* ------------------------------------------------------------ C21
\* C21: of two frames of one connection and one direction that follow each
\* other, the second is resampled from the filter state the first one's
\* resampling returned, never from the initial state.
C21_FilterStateCarriedOver ==
    [][(/\ last.op \in {"twilio_media", "audio_delta"}
        /\ last'.op = last.op
        /\ last'.conn = last.conn
        /\ last.filter.returned
        /\ last'.filter.returned) =>
           /\ last'.filter.state_in = last.filter.state_out
           /\ last'.filter.state_in # None]_vars

\* ------------------------------------------------------------ teardown
\* Two calls: CA1's session ends and its /end_call is summarised, while CA2 is
\* admitted, relayed and torn down and the helpdesk polls.
EndCallSpecNext ==
    \/ media_stream_handler(1, "CA1")
    \/ media_stream_handler(2, "CA2")
    \/ \E k \in Conns : connect_to_openai_realtime(k, TRUE)
    \/ openai_transcription_completed(1, "hi")
    \/ \E k \in Conns : twilio_end(k)
    \/ \E k \in Conns : openai_close(k)
    \/ \E k \in Conns : handler_finally(k)
    \/ \E k \in Conns : finalize_call(k)
    \/ finalize_call_resume(2)
    \/ get_issue_type("CA1", NumGood)
    \/ \E content \in {ReplyGood, ReplyText} : get_issue_type_resume(content)
    \/ poll(TRUE)
    \/ start_call("CA2", NumGood)
    \/ start_call_sweep

EndCallSpec == Init /\ [][EndCallSpecNext]_vars

\* The same with the service's own steps weakly fair: a request waiting for
\* store_lock goes on once the lock is free, and a handler whose pumps have
\* returned runs its finally block and finalize_call. When the summariser
\* replies, and whether it does, is up to the summariser.
FairEndCallSpec ==
    /\ Init
    /\ [][EndCallSpecNext]_vars
    /\ WF_vars(start_call_sweep)
    /\ \A k \in Conns : WF_vars(handler_finally(k)) /\ WF_vars(finalize_call(k))
    /\ WF_vars(finalize_call_resume(2))

C23_OtherCallsNotHeldUp ==
    pending # None =>
        /\ voice_waiting = 0
        /\ \A k \in Conns :
               pc[k] = "finalize_wait" => call_of[k] = pending.CallSid

\* ------------------------------------------------------------ C24
\* C24: when /end_call has appended the record of a call id, no session of
\* that call id is left in active_calls or in conversation_state.
C24_SessionRemovedAfterEnqueue ==
    Enqueues(last) =>
        /\ last.CallSid \notin DOMAIN active_calls
        /\ last.CallSid \notin DOMAIN conversation_state

\* ------------------------------------------------------------ C25
\* The step is an authorized /poll.
Polls(label) == label.op = "poll" /\ label.status = 200

\* C25: the record /end_call appends is not visited; a /poll leaves every
\* record it keeps visited; and every other record of the store after a step
\* is a record of the store before it, unchanged, or changed by a /poll in
\* nothing but its visited flag, from false to true.
C25_VisitedOnlyRises ==
    [][/\ Enqueues(last') =>
              /\ Len(issues_store') = Len(issues_store) + 1
              /\ ~issues_store'[Len(issues_store')].visited
       /\ Polls(last') => AllVisited(issues_store')
       /\ \A j \in 1..Len(issues_store') :
              \/ Enqueues(last') /\ j = Len(issues_store')
              \/ \E i \in 1..Len(issues_store) :
                     \/ issues_store'[j] = issues_store[i]
                     \/ /\ Polls(last')
                        /\ ~issues_store[i].visited
                        /\ issues_store'[j] = [issues_store[i] EXCEPT !.visited = TRUE]
      ]_vars

\* A record that a /poll returned, and after it a record enqueued since.
C25_Witness ==
    /\ Enqueues(last)
    /\ Len(issues_store) = 2
    /\ issues_store[1].visited
    /\ ~issues_store[2].visited

\* ------------------------------------------------------------ C26
\* The step is a /voice request that went through the admission checks.
Checked(label) == label.op = "voice" /\ label.status \in {"rejected", "admitted"}

\* C26: after every step each caller's window holds at most
\* MAX_REQUESTS_PER_HOUR timestamps, none before the one in front of it; and
\* after a /voice request that checked the caller, the caller's window holds no
\* timestamp older than an hour.
C26_WindowBoundedAndPruned ==
    [][/\ \A number \in DOMAIN rate_limit_log' :
              LET timestamps == rate_limit_log'[number]
              IN  /\ Len(timestamps) <= MAX_REQUESTS_PER_HOUR
                  /\ \A i \in 1..Len(timestamps) - 1 :
                         timestamps[i] <= timestamps[i + 1]
       /\ Checked(last') =>
              \A i \in 1..Len(Window(rate_limit_log', last'.From)) :
                  Window(rate_limit_log', last'.From)[i] >= now' - HOUR
      ]_vars

\* A caller with a full window is admitted more than an hour later: the check
\* has pruned the five old timestamps, and the window holds the new one.
C26_Witness ==
    /\ last.op = "voice"
    /\ last.status = "admitted"
    /\ last.before = MAX_REQUESTS_PER_HOUR
    /\ rate_limit_log[last.From] = <<now>>

\* ------------------------------------------------------------ C30
\* C30: whatever the order in which the /voice requests of a caller are
\* handled, no more than MAX_REQUESTS_PER_HOUR of them are admitted within one
\* hour: the admissions of the hour that ends with the caller's latest one
\* are never more.
C30_AtMostLimitAdmittedPerHour ==
    \A number \in Froms : Len(admit_times[number]) <= MAX_REQUESTS_PER_HOUR

\* A caller admitted MAX_REQUESTS_PER_HOUR times within the hour is turned away
\* by the rate limit.
C30_Witness ==
    /\ last.op = "voice"
    /\ last.status = "rejected"
    /\ last.RateLimited
    /\ Len(admit_times[last.From]) = MAX_REQUESTS_PER_HOUR
    /\ now - admit_times[last.From][1] = HOUR

\* ------------------------------------------------------------ media to the carrier
\* Two media-stream connections of one call id, each with its carrier's start
\* message (a stream identifier, or an empty one) and the backend's audio. The
\* second connection registers its own session for the call id, and the one
\* that ends first marks the registered session and deletes the registration.
StreamSpecNext ==
    \/ \E k \in Conns : media_stream_handler(k, "CA1")
    \/ \E k \in Conns : connect_to_openai_realtime(k, TRUE)
    \/ \E streamSid \in {"MZ1", ""} : twilio_start(1, streamSid)
    \/ twilio_start(2, "MZ2")
    \/ \E k \in Conns : openai_audio_delta(k, [b64 |-> TRUE, bytes |-> 14], TRUE)
    \/ \E k \in Conns : twilio_end(k)
    \/ \E k \in Conns : openai_close(k)
    \/ \E k \in Conns : handler_finally(k)
    \/ \E k \in Conns : finalize_call(k)

StreamSpec == Init /\ [][StreamSpecNext]_vars

\* C29: a connection sends a media message only in a step in which the session
\* registered for its call id is connected and has the stream identifier of a
\* carrier start message; the message carries that identifier and the audio of
\* the frame that has just arrived; and a frame that arrives while the call id
\* has no such session is sent neither then nor later.
C29_MediaOnlyOnStartedStream ==
    [][\A k \in Conns :
           to_twilio'[k] # to_twilio[k] =>
               /\ last'.op = "audio_delta"
               /\ last'.conn = k
               /\ call_of[k] \in DOMAIN active_calls
               /\ LET session == sessions[active_calls[call_of[k]]]
                  IN  /\ session.connected
                      /\ session.stream_sid \in {"MZ1", "MZ2"}
                      /\ to_twilio'[k] =
                             Append(to_twilio[k],
                                    [streamSid |-> session.stream_sid,
                                     payload |-> pcm16_to_mulaw(last'.delta.bytes),
                                     at |-> nframes'])]_vars

\* The first frame of the backend arrived before the carrier's start message
\* and was dropped; the second, after it, is the one message sent.
C29_Witness ==
    /\ pc = <<"running", "idle">>
    /\ last.op = "audio_delta"
    /\ nframes = 2
    /\ Len(to_twilio[1]) = 1
    /\ to_twilio[1][1].streamSid = "MZ1"
    /\ to_twilio[1][1].at = 2

\* ------------------------------------------------------------ the stepwise flow
\* The call CA1 going through the steps in any order, from the number of the
\* table or another, with the callback's digits and a second try (whose request
\* has the call id of the callback), and the first steps of another call CA2,
\* whose caller says nothing, in between.
StepSpecNext ==
    \/ \E From \in MainFroms : get_device_info("CA1", "Ann", From)
    \/ get_device_info("CA2", "", "+447808289493")
    \/ explain_issue("CA1", "pc")
    \/ explain_issue("CA2", "")
    \/ transcription("CA1", "+447808289493", "pc", NoCallSid)
    \/ transcription("CA2", "+447808289493", "again", "CA1")
    \/ \E Digits \in Digit : confirm_issue("CA1", Digits)

StepSpec == Init /\ [][StepSpecNext]_vars

\* ------------------------------------------------------------ C27
\* The step is a /transcription that built and stored a record.
Builds(label) == label.op = "transcription" /\ label.status = "saved"

\* C27: the record /transcription builds for a call id has the name, number,
\* company and system_info that /device_info and /explain_issue last stored
\* for that call id; and a step on the session of one call id leaves the
\* session of every other call id as it is.
C27_StepsCarriedIntoRecord ==
    [][/\ Builds(last') =>
              LET issue == main_issues_store'[Len(main_issues_store')]
                  heard == main_heard[last'.CallSid]
              IN  /\ Len(main_issues_store') = Len(main_issues_store) + 1
                  /\ \A key \in DOMAIN heard : issue[key] = heard[key]
       /\ \A c \in CallSids :
              ("CallSid" \in DOMAIN last' /\ last'.CallSid # c) =>
                  /\ (c \in DOMAIN main_conversation_state') =
                         (c \in DOMAIN main_conversation_state)
                  /\ c \in DOMAIN main_conversation_state =>
                         main_conversation_state'[c] = main_conversation_state[c]
      ]_vars

\* /transcription has built the record of CA1 after both of its steps, with a
\* session of CA2 beside it.
C27_Witness ==
    /\ Builds(last)
    /\ last.CallSid = "CA1"
    /\ DOMAIN main_heard["CA1"] = {"name", "number", "company", "system_info"}
    /\ "CA2" \in DOMAIN main_conversation_state
    /\ main_issues_store[Len(main_issues_store)].name = "Ann"
    /\ main_issues_store[Len(main_issues_store)].system_info = "pc"

\* ------------------------------------------------------------ C28
\* C28: the stepwise flow appends at most one record to issues_store for a
\* call id.
C28_OneRecordPerCall == \A c \in CallSids : main_enqueued[c] <= 1

====
